---- MODULE Spec2Model ----
(***************************************************************************)
(* A model of the concurrent funding-rate scanner SmartMarketScanner       *)
(* (src/market_scanner.py).                                                *)
(*                                                                         *)
(* Numbers.  Funding rates and fees are integers counting units of 1e-4    *)
(* (0.0005 is 5).  Every derived quantity (annualized return, costs,       *)
(* breakeven days, variance) is an exact rational <<n, d>> in lowest terms *)
(* with d > 0, so two rationals are equal exactly when the pairs are.      *)
(* Python floats are modelled by these exact values; NaN/inf inputs are    *)
(* outside the model.                                                      *)
(*                                                                         *)
(* Threads.  Python threads interleave between expressions that touch      *)
(* shared objects; the model takes one step per access of self.cache and   *)
(* self.history and per gateway (network) call.                            *)
(***************************************************************************)
EXTENDS Integers, Sequences, FiniteSets, TLC

\* ------------------------------------------------------------ rationals

Abs(x) == IF x < 0 THEN -x ELSE x

\* n/d in lowest terms with a positive denominator (d # 0); the pair is
\* normalised by a function, so that n and d are evaluated once
Rat(n, d) ==
    LET gcd[a \in Nat, b \in Nat] == IF b = 0 THEN a ELSE gcd[b, a % b]
        norm[p \in Int \X Int] ==
            LET g == gcd[Abs(p[1]), Abs(p[2])]
                s == IF p[2] < 0 THEN -1 ELSE 1
            IN  <<(s * p[1]) \div g, (s * p[2]) \div g>>
    IN  norm[<<n, d>>]

RInt(n) == <<n, 1>>
RAdd(a, b) == Rat(a[1] * b[2] + b[1] * a[2], a[2] * b[2])
RMul(a, b) == Rat(a[1] * b[1], a[2] * b[2])
RDiv(a, b) == Rat(a[1] * b[2], a[2] * b[1])
RLt(a, b) == a[1] * b[2] < b[1] * a[2]
RLe(a, b) == a[1] * b[2] <= b[1] * a[2]
RZero == RInt(0)

\* ------------------------------------------------------- program constants

TTL == 300
HistoryCap == 50
MinSamples == 5
PoolWidth == 10
VenueWidth == 3
DefaultInterval == 8
Sentinel == 999
DefaultLimit == 30
SleepSeconds == 60

Venues == {"binance", "bybit", "okx"}
ReferenceVenue == "binance"

FallbackSymbols == <<"BTC/USDT", "ETH/USDT">>
MockSymbols == <<"BTC/USDT", "ETH/USDT", "SOL/USDT", "ARB/USDT", "OP/USDT">>

\* FEE_SCHEDULE, in units of 1e-4
FEE_SCHEDULE ==
    [binance |-> [maker |-> 2, taker |-> 5],
     bybit   |-> [maker |-> 1, taker |-> 6],
     okx     |-> [maker |-> 2, taker |-> 5]]

DefaultFee == [maker |-> 2, taker |-> 5]

\* the class attribute FEE_SCHEDULE as it is now
VARIABLE fee_schedule

\* lines 227-228: FEE_SCHEDULE.get(ex, default)
FeeOf(ex) == IF ex \in DOMAIN fee_schedule THEN fee_schedule[ex] ELSE DefaultFee

\* lines 227-228 written with setdefault: the default pair is stored
fee_table_after_setdefault(table, long_ex, short_ex) ==
    [ex \in DOMAIN table \cup {long_ex, short_ex} |->
        IF ex \in DOMAIN table THEN table[ex] ELSE DefaultFee]

\* lines 227-245: the table after a call of _calculate_fees, which only
\* reads it
fee_table_after(table, long_ex, short_ex) == table

\* _calculate_fees ignoring assume_maker
calculate_fees_all_taker(long_ex, short_ex, assume_maker) ==
    FeeOf(long_ex).taker * 2 + FeeOf(short_ex).taker * 2

\* _calculate_fees: total fee in units of 1e-4
calculate_fees(long_ex, short_ex, assume_maker) ==
    LET long_fee == FeeOf(long_ex)
        short_fee == FeeOf(short_ex)
    IN  IF assume_maker
        THEN long_fee.taker + short_fee.taker + long_fee.maker + short_fee.maker
        ELSE long_fee.taker * 2 + short_fee.taker * 2

\* ------------------------------------------------------------- sorting

\* the pairs of positions of seq
Pairs(seq) == (1..Len(seq)) \X (1..Len(seq))

\* Python's sorted(): the stable order of seq, where lt[<<i, j>>] says that
\* the key of seq[i] is strictly before the key of seq[j]; elements whose
\* keys compare equal keep their original relative order (also with
\* reverse=True).
StableSort(seq, lt) ==
    LET n == Len(seq)
        before(j, i) == lt[<<j, i>>] \/ (~lt[<<i, j>>] /\ j < i)
        rank(i) == Cardinality({j \in 1..n : before(j, i)}) + 1
    IN  [k \in 1..n |-> seq[CHOOSE i \in 1..n : rank(i) = k]]

Prefix(seq, n) == SubSeq(seq, 1, IF n < Len(seq) THEN n ELSE Len(seq))

Min(a, b) == IF a <= b THEN a ELSE b

RECURSIVE SumSeq(_)
SumSeq(seq) == IF seq = <<>> THEN 0 ELSE Head(seq) + SumSeq(Tail(seq))

\* ----------------------------------------------------- universe selection

\* Substring tests of lines 105-107, tabulated for the instrument names the
\* reference venue reports in this model.
HasSlashUSDT(sym) ==
    sym \in {"BTC/USDT", "ETH/USDT", "SOL/USDT", "ARB/USDT", "OP/USDT",
             "BUSD/USDT", "BTC/USDT:USDT"}
HasBUSD(sym) == sym \in {"BUSD/USDT", "BTC/BUSD"}
HasColonUSDT(sym) == sym \in {"BTC/USDT:USDT"}

\* t.get('quoteVolume', 0): kind "num" carries a number, "missing" has no such
\* key (the default 0 is used), "none" carries None (None > 0 raises TypeError)
VolumeOf(t) == IF t.kind = "num" THEN t.quoteVolume ELSE 0

NameOk(t) == HasSlashUSDT(t.symbol) /\ ~HasBUSD(t.symbol) /\ ~HasColonUSDT(t.symbol)

\* the filter evaluates t.get('quoteVolume', 0) > 0 only for tickers whose
\* name passed the three name tests
FilterRaises(tickers) ==
    \E i \in 1..Len(tickers) : NameOk(tickers[i]) /\ tickers[i].kind = "none"

valid_tickers(tickers) ==
    SelectSeq(tickers, LAMBDA t : NameOk(t) /\ VolumeOf(t) > 0)

sorted_tickers(tickers) ==
    LET valid == valid_tickers(tickers)
    IN  StableSort(valid, [p \in Pairs(valid) |->
                              valid[p[1]].quoteVolume > valid[p[2]].quoteVolume])

\* lines 103-117: the list computed from a successful fetch_tickers() reply
TopSymbols(tickers, limit) ==
    LET top == Prefix(sorted_tickers(tickers), limit)
    IN  [i \in 1..Len(top) |-> top[i].symbol]

\* ------------------------------------------------------ gateway wrappers

NoneVal == [ok |-> FALSE]

HourMs == 1000 * 60 * 60

\* int(x / HourMs) for a float quotient: truncation toward zero
TruncHours(ms) == IF ms >= 0 THEN ms \div HourMs ELSE -((-ms) \div HourMs)

\* _fetch_funding_rate applied to the venue's reply.  A reply that raised
\* (timeout, transport error, missing fundingRate) is [ok |-> FALSE].
\* has_hours: the reply carries fundingIntervalHours; has_ts: it carries
\* fundingTimestamp and fundingDatetime, next_ts/cur_ts being fundingTimestamp
\* and timestamp.
fetch_funding_rate(reply) ==
    IF ~reply.ok THEN NoneVal
    ELSE LET interval_hours ==
                 IF reply.has_hours THEN reply.hours
                 ELSE IF reply.has_ts /\ reply.next_ts # 0 /\ reply.cur_ts # 0
                      THEN TruncHours(reply.next_ts - reply.cur_ts)
                      ELSE DefaultInterval
         IN  [ok |-> TRUE, rate |-> reply.rate, interval_hours |-> interval_hours]

RECURSIVE Notional(_)
Notional(levels) ==
    IF levels = <<>> THEN 0
    ELSE Head(levels)[1] * Head(levels)[2] + Notional(Tail(levels))

\* _fetch_orderbook_price applied to the venue's order book reply
fetch_orderbook_price(reply, side) ==
    IF ~reply.ok THEN NoneVal
    ELSE LET levels == IF side = "long" THEN reply.asks ELSE reply.bids
         IN  IF levels = <<>> THEN NoneVal
             ELSE [ok |-> TRUE,
                   price |-> levels[1][1],
                   volume |-> levels[1][2],
                   depth |-> Notional(Prefix(levels, 5))]

\* ------------------------------------------- one instrument: pure steps

\* a rate of r units of 1e-4 as a fraction
Frac(r) == Rat(r, 10000)

\* line 306: sorted(rates.items(), key=rate); rates is kept in insertion
\* order, one entry [ex, rate, interval] per venue that answered
sorted_rates(rates) ==
    StableSort(rates, [p \in Pairs(rates) |-> rates[p[1]].rate < rates[p[2]].rate])

\* the pair min()/max() would pick: the first venue of the lowest and the
\* first venue of the highest rate
venue_pair_first_extremes(rates) ==
    LET first(r) == CHOOSE i \in 1..Len(rates) :
                       /\ rates[i].rate = r
                       /\ \A j \in 1..(i - 1) : rates[j].rate # r
        lowest == CHOOSE r \in {rates[i].rate : i \in 1..Len(rates)} :
                       \A i \in 1..Len(rates) : r <= rates[i].rate
        highest == CHOOSE r \in {rates[i].rate : i \in 1..Len(rates)} :
                       \A i \in 1..Len(rates) : r >= rates[i].rate
    IN  [lo |-> rates[first(lowest)], hi |-> rates[first(highest)]]

\* lines 306-308: the two ends of the sorted list
venue_pair(rates) ==
    LET sorted == sorted_rates(rates)
    IN  [lo |-> sorted[1], hi |-> sorted[Len(sorted)]]

\* the long venue's interval alone
effective_interval_of_long(lo, hi) == lo.interval

\* line 314
effective_interval(lo, hi) == Min(lo.interval, hi.interval)

\* lines 306-316.  24 / 0 raises ZeroDivisionError: [ok |-> FALSE]
select_venues(rates) ==
    LET lo == venue_pair(rates).lo
        hi == venue_pair(rates).hi
        rate_diff == hi.rate - lo.rate
        funding_interval == effective_interval(lo, hi)
    IN  IF funding_interval = 0 THEN NoneVal
        ELSE LET times_per_day == Rat(24, funding_interval)
             IN  [ok |-> TRUE,
                  min_ex |-> lo.ex, min_rate |-> lo.rate,
                  max_ex |-> hi.ex, max_rate |-> hi.rate,
                  rate_diff |-> rate_diff,
                  funding_interval |-> funding_interval,
                  times_per_day |-> times_per_day,
                  apr |-> RMul(RMul(RMul(Frac(rate_diff), times_per_day),
                                    RInt(365)), RInt(100))]

\* the filter with the bound 1
too_few_rates_below_one(rates) == Len(rates) < 1

\* line 302
too_few_rates(rates) == Len(rates) < 2

\* lines 329-332 dividing by the long price
spread_cost_over_long(long_price, short_price) ==
    IF short_price > 0 THEN Rat(long_price - short_price, long_price)
    ELSE Rat(1, 100)

\* lines 329-332
spread_cost(long_price, short_price) ==
    IF short_price > 0 THEN Rat(long_price - short_price, short_price)
    ELSE Rat(1, 100)

\* breakeven_days without the branch of lines 343-344
breakeven_days_no_free(total_cost, daily_yield) ==
    IF RLt(Rat(1, 1000000), daily_yield) THEN RDiv(total_cost, daily_yield)
    ELSE RInt(Sentinel)

\* lines 341-348
breakeven_days(total_cost, daily_yield) ==
    IF RLe(total_cost, RZero) THEN RZero
    ELSE IF RLt(Rat(1, 1000000), daily_yield) THEN RDiv(total_cost, daily_yield)
    ELSE RInt(Sentinel)

\* lines 325-351
costs(sel, long_book, short_book) ==
    LET spread == spread_cost(long_book.price, short_book.price)
        fee == Frac(calculate_fees(sel.min_ex, sel.max_ex, TRUE))
        total == RAdd(spread, fee)
        daily_yield == RMul(Frac(sel.rate_diff), sel.times_per_day)
    IN  [long_price |-> long_book.price,
         short_price |-> short_book.price,
         spread_cost |-> spread,
         fee_cost |-> fee,
         total_cost |-> total,
         daily_yield |-> daily_yield,
         breakeven_days |-> breakeven_days(total, daily_yield),
         depth |-> Min(long_book.depth, short_book.depth)]

\* the test of line 357 with the bound one higher
over_cap_by_two(list) == Len(list) > HistoryCap + 1

\* line 357
over_cap(list) == Len(list) > HistoryCap

\* pop() of the last element
pop_last(list) == SubSeq(list, 1, Len(list) - 1)

\* line 358: pop(0) of a list that is not empty
pop0(list) == Tail(list)

\* np.std(window) ** 2 in units of (1e-4)^2: the population variance
\* (numpy's default ddof = 0), (n * sum x^2 - (sum x)^2) / n^2; the std of an
\* empty list is nan, written <<0, 0>>
np_var(window) ==
    LET n == Len(window)
        sx == SumSeq(window)
        sxx == SumSeq([i \in 1..n |-> window[i] * window[i]])
    IN  IF n = 0 THEN <<0, 0>> ELSE Rat(n * sxx - sx * sx, n * n)

\* the placeholder 0.0001, squared, in units of (1e-4)^2
PlaceholderVar == RInt(1)

\* lines 362-402: the keys of funding_analysis after the four analyzer calls
\* (predicted short, predicted long, stability short, stability long); each
\* call returns a value ("ok"), returns None ("none") or raises ("raise"),
\* and a raise keeps the keys already set.
RaisedBefore(calls, k) == \E i \in 1..(k - 1) : calls[i] = "raise"

funding_analysis(calls) ==
    {key \in {"short", "long", "stability"} :
        \/ key = "short" /\ calls[1] = "ok"
        \/ key = "long" /\ calls[2] = "ok" /\ ~RaisedBefore(calls, 2)
        \/ key = "stability" /\ calls[3] = "ok" /\ calls[4] = "ok"
                             /\ ~RaisedBefore(calls, 4)}

\* lines 404-422 (the observation time is left out)
opportunity(symbol, sel, cost, sigma_sq, analysis) ==
    [symbol |-> symbol,
     long_ex |-> sel.min_ex,
     short_ex |-> sel.max_ex,
     long_price |-> cost.long_price,
     short_price |-> cost.short_price,
     apr |-> sel.apr,
     rate_diff |-> Frac(sel.rate_diff),
     funding_interval |-> sel.funding_interval,
     times_per_day |-> sel.times_per_day,
     spread |-> RMul(cost.spread_cost, RInt(100)),
     fees |-> RMul(cost.fee_cost, RInt(100)),
     total_cost |-> RMul(cost.total_cost, RInt(100)),
     breakeven_days |-> cost.breakeven_days,
     depth |-> cost.depth,
     sigma_sq |-> sigma_sq,
     funding_analysis |-> analysis]

\* lines 267-269: progress_callback(completed, len(symbols)), called before
\* the future's result is looked at; progress is the list of the calls made
reported(progress, n, total, task) == Append(progress, <<n, total>>)

\* lines 272-274 with a task that raised emptying the list
appended_or_reset(opportunities, task) ==
    IF task.raised THEN <<>> ELSE opportunities \o task.result

\* lines 272-274: the future's result is appended unless it is None
appended(opportunities, task) == opportunities \o task.result

\* sorted() without reverse=True
sorted_by_apr_ascending(opps) ==
    StableSort(opps, [p \in Pairs(opps) |-> RLt(opps[p[1]].apr, opps[p[2]].apr)])

\* line 280
sorted_by_apr(opps) ==
    StableSort(opps, [p \in Pairs(opps) |-> RLt(opps[p[2]].apr, opps[p[1]].apr)])

\* lines 428-511: the two hard-coded records (prices in tenths, the
\* enrichment block by its keys)
generate_mock_opportunities ==
    << [symbol |-> "BTC/USDT", long_ex |-> "binance", short_ex |-> "bybit",
        long_price |-> 421505, short_price |-> 421482,
        apr |-> Rat(258, 10), rate_diff |-> Rat(6, 10000),
        funding_interval |-> 8, times_per_day |-> RInt(3),
        spread |-> Rat(5, 1000), fees |-> Rat(14, 100),
        total_cost |-> Rat(145, 1000), breakeven_days |-> Rat(8, 10),
        depth |-> 8500000, sigma_sq |-> Rat(9, 4),
        funding_analysis |-> {"short", "long", "stability"}],
       [symbol |-> "ETH/USDT", long_ex |-> "okx", short_ex |-> "binance",
        long_price |-> 22458, short_price |-> 22455,
        apr |-> Rat(182, 10), rate_diff |-> Rat(42, 100000),
        funding_interval |-> 8, times_per_day |-> RInt(3),
        spread |-> Rat(13, 1000), fees |-> Rat(14, 100),
        total_cost |-> Rat(153, 1000), breakeven_days |-> Rat(12, 10),
        depth |-> 3200000, sigma_sq |-> RInt(4),
        funding_analysis |-> {"short", "long", "stability"}] >>

\* ---------------------------------------------------------------- state

VARIABLES
    use_mock,          \* self.use_mock
    exchanges,         \* the keys of self.exchanges
    funding_analyzer,  \* whether self.funding_analyzer is set
    cache,             \* self.cache['top_symbols']: [has, time, data]
    cache_lock,        \* self.cache_lock: 0 when free, else the holding thread
    history,           \* self.history: instrument -> list of differentials
    now,               \* time.time(), in seconds
    th,                \* the calling threads: the frame of the running call
    calls,             \* the number of calls made so far, by operation
                       \* (balance: guard.balance_security_transfer)
    recorded           \* instrument -> every differential appended to its
                       \* list so far, in the order of the appends

vars == <<use_mock, exchanges, funding_analyzer, cache, cache_lock, history,
          now, th, calls, recorded, fee_schedule>>

EmptyDict == [x \in {} |-> <<>>]

EmptyCache == [has |-> FALSE, time |-> 0, data |-> <<>>]

\* the frame of a thread that is not inside a call
IdleThread ==
    [op |-> "none", pc |-> "idle", args |-> <<>>, limit |-> 0, cb |-> "none",
     tickers_reply |-> "none", symbols |-> <<>>, tasks |-> EmptyDict,
     collected |-> {}, completed |-> 0, opportunities |-> <<>>,
     progress |-> <<>>, result |-> <<>>]

\* the locals of one _scan_single_symbol task as it is submitted; quoted is
\* what the venues reported to it, a triple <<venue, rate, reply>> per venue
\* that returned a usable funding rate, analyzer is how the analyzer's calls
\* answered the task, and appends counts the task's executions of line 356
NewTask ==
    [pc |-> "queued", pending |-> {}, quoted |-> {}, rates |-> <<>>, sel |-> NoneVal,
     long_book |-> NoneVal, short_book |-> NoneVal, cost |-> NoneVal,
     sigma_sq |-> RZero, analyzer |-> <<>>, appends |-> 0, raised |-> FALSE,
     result |-> <<>>]

\* the constructor without the test of line 42: venues are configured and
\* the analyzer is created whatever use_mock is
Constructed_always_connects ==
    /\ use_mock \in BOOLEAN
    /\ exchanges \in SUBSET Venues
    /\ funding_analyzer = (exchanges # {})
    /\ cache = EmptyCache
    /\ cache_lock = 0
    /\ history = EmptyDict
    /\ now = 0
    /\ calls = [scan |-> 0, select |-> 0, balance |-> 0]
    /\ recorded = EmptyDict
    /\ fee_schedule = FEE_SCHEDULE

\* lines 34-46 and 48-81: the engine as constructed.  A venue is configured
\* when its API key is set; the mock engine configures none.
Constructed ==
    /\ use_mock \in BOOLEAN
    /\ exchanges \in IF use_mock THEN {{}} ELSE SUBSET Venues
    /\ funding_analyzer = (exchanges # {})
    /\ cache = EmptyCache
    /\ cache_lock = 0
    /\ history = EmptyDict
    /\ now = 0
    /\ calls = [scan |-> 0, select |-> 0, balance |-> 0]
    /\ recorded = EmptyDict
    /\ fee_schedule = FEE_SCHEDULE

Threads == DOMAIN th

RecordedOf(sym) == IF sym \in DOMAIN recorded THEN recorded[sym] ELSE <<>>

TaskOf(t, sym) == th[t].tasks[sym]

Running(t) ==
    {sym \in DOMAIN th[t].tasks : th[t].tasks[sym].pc \notin {"queued", "done"}}

\* ------------------------------------------------------- universe selection

\* a return statement of get_top_volume_symbols: the list goes to the caller,
\* which is scan_funding_opportunities (line 254) or an outside caller
ReturnSymbols(t, list, reply) ==
    th' = [th EXCEPT ![t] =
              IF @.op = "scan"
              THEN [@ EXCEPT !.pc = "submit", !.symbols = list,
                             !.tickers_reply = reply]
              ELSE [@ EXCEPT !.pc = "returned", !.symbols = list,
                             !.result = list, !.tickers_reply = reply]]

\* a call of scan_funding_opportunities(progress_callback) or of
\* get_top_volume_symbols(limit) by thread t; lines 251-252 for the mock scan
Call(t, op, limit, cb, max_calls) ==
    /\ th[t].pc \in {"idle", "returned", "raised"}
    /\ calls[op] < max_calls
    /\ calls' = [calls EXCEPT ![op] = @ + 1]
    /\ th' = [th EXCEPT ![t] =
                 IF op = "scan" /\ use_mock
                 THEN [IdleThread EXCEPT !.op = op, !.cb = cb, !.pc = "returned",
                                         !.result = generate_mock_opportunities]
                 ELSE [IdleThread EXCEPT !.op = op, !.cb = cb, !.pc = "u_check",
                                         !.limit = limit]]
    /\ UNCHANGED <<use_mock, fee_schedule, exchanges, funding_analyzer, cache, cache_lock,
                   history, recorded, now>>

\* a call of _calculate_fees(long_ex, short_ex, assume_maker) by thread t
CallFees(t, long_ex, short_ex, assume_maker) ==
    /\ th[t].pc \in {"idle", "returned"}
    /\ th' = [th EXCEPT ![t] =
                 [IdleThread EXCEPT
                     !.op = "fees", !.pc = "returned",
                     !.args = <<long_ex, short_ex, assume_maker>>,
                     !.result = <<calculate_fees(long_ex, short_ex, assume_maker)>>]]
    /\ fee_schedule' = fee_table_after(fee_schedule, long_ex, short_ex)
    /\ UNCHANGED <<use_mock, exchanges, funding_analyzer, cache, cache_lock,
                   history, recorded, now, calls>>

\* the test of line 90 with <= in place of <
CacheFresh_inclusive == cache.has /\ now - cache.time <= TTL

\* the cache entry is served while younger than the TTL (line 90)
CacheFresh == cache.has /\ now - cache.time < TTL

\* lines 85-98 with the lock of line 120 taken before the venue is queried
UCheck_holding_lock(t) ==
    /\ th[t].pc = "u_check"
    /\ IF CacheFresh
       THEN ReturnSymbols(t, cache.data, "none") /\ UNCHANGED cache_lock
       ELSE IF use_mock
            THEN ReturnSymbols(t, MockSymbols, "none") /\ UNCHANGED cache_lock
       ELSE IF ReferenceVenue \notin exchanges
            THEN ReturnSymbols(t, FallbackSymbols, "none") /\ UNCHANGED cache_lock
       ELSE /\ cache_lock = 0
            /\ cache_lock' = t
            /\ th' = [th EXCEPT ![t].pc = "u_fetch"]
    /\ UNCHANGED <<use_mock, fee_schedule, exchanges, funding_analyzer, cache,
                   history, recorded, now, calls>>

\* lines 85-98
UCheck(t) ==
    /\ th[t].pc = "u_check"
    /\ IF CacheFresh THEN ReturnSymbols(t, cache.data, "none")
       ELSE IF use_mock THEN ReturnSymbols(t, MockSymbols, "none")
       ELSE IF ReferenceVenue \notin exchanges
            THEN ReturnSymbols(t, FallbackSymbols, "none")
       ELSE th' = [th EXCEPT ![t].pc = "u_fetch"]
    /\ UNCHANGED <<use_mock, fee_schedule, exchanges, funding_analyzer, cache, cache_lock,
                   history, recorded, now, calls>>

\* lines 100-117 without the try of line 96: a failed query leaves the call
UFetch_unguarded(t, reply) ==
    /\ th[t].pc = "u_fetch"
    /\ IF ~reply.ok \/ FilterRaises(reply.tickers)
       THEN th' = [th EXCEPT ![t].pc = "raised", ![t].tickers_reply = "error"]
       ELSE th' = [th EXCEPT ![t].pc = "u_lock",
                             ![t].tickers_reply = "ok",
                             ![t].symbols = TopSymbols(reply.tickers, th[t].limit)]
    /\ UNCHANGED <<use_mock, fee_schedule, exchanges, funding_analyzer, cache, cache_lock,
                   history, recorded, now, calls>>

\* lines 100-117 and 124-126: fetch_tickers() answers with reply
UFetch(t, reply) ==
    /\ th[t].pc = "u_fetch"
    /\ IF ~reply.ok THEN ReturnSymbols(t, FallbackSymbols, "error")
       ELSE IF FilterRaises(reply.tickers)
            THEN ReturnSymbols(t, FallbackSymbols, "malformed")
       ELSE th' = [th EXCEPT ![t].pc = "u_lock",
                             ![t].tickers_reply = "ok",
                             ![t].symbols = TopSymbols(reply.tickers, th[t].limit)]
    /\ UNCHANGED <<use_mock, fee_schedule, exchanges, funding_analyzer, cache, cache_lock,
                   history, recorded, now, calls>>

\* line 120: with self.cache_lock
ULock(t) ==
    /\ th[t].pc = "u_lock"
    /\ cache_lock = 0
    /\ cache_lock' = t
    /\ th' = [th EXCEPT ![t].pc = "u_write"]
    /\ UNCHANGED <<use_mock, fee_schedule, exchanges, funding_analyzer, cache, history, recorded, now,
                   calls>>

\* lines 121-123
UWrite(t) ==
    /\ th[t].pc = "u_write"
    /\ cache' = [has |-> TRUE, time |-> now, data |-> th[t].symbols]
    /\ cache_lock' = 0
    /\ ReturnSymbols(t, th[t].symbols, "ok")
    /\ UNCHANGED <<use_mock, fee_schedule, exchanges, funding_analyzer, history, recorded, now, calls>>

\* ------------------------------------------------------- one instrument

Frame == <<use_mock, exchanges, funding_analyzer, cache, cache_lock, now, calls>>

SetTask(t, sym, task) == th' = [th EXCEPT ![t].tasks[sym] = task]

\* return None (lines 303 and 323), or the except branch (lines 424-426)
Dropped(task, raised) == [task EXCEPT !.pc = "done", !.raised = raised]

\* lines 258-263: one future per instrument of the universe
Submit(t) ==
    /\ th[t].pc = "submit"
    /\ th' = [th EXCEPT ![t].pc = "collect",
                        ![t].tasks = [sym \in {th[t].symbols[i] :
                                               i \in 1..Len(th[t].symbols)}
                                      |-> NewTask]]
    /\ UNCHANGED <<Frame, fee_schedule, history, recorded>>

\* a task taken up whatever the number of tasks under way
TaskStart_unbounded(t, sym) ==
    /\ th[t].pc \in {"collect", "unwind"}
    /\ sym \in DOMAIN th[t].tasks
    /\ TaskOf(t, sym).pc = "queued"
    /\ SetTask(t, sym, [TaskOf(t, sym) EXCEPT !.pc = "rates",
                                              !.pending = exchanges])
    /\ UNCHANGED <<Frame, fee_schedule, history, recorded>>

\* a pool worker (max_workers=10) takes the task up; lines 286-293 submit one
\* funding-rate sub-task per configured venue
TaskStart(t, sym) ==
    /\ th[t].pc \in {"collect", "unwind"}
    /\ sym \in DOMAIN th[t].tasks
    /\ TaskOf(t, sym).pc = "queued"
    /\ Cardinality(Running(t)) < PoolWidth
    /\ SetTask(t, sym, [TaskOf(t, sym) EXCEPT !.pc = "rates",
                                              !.pending = exchanges])
    /\ UNCHANGED <<Frame, fee_schedule, history, recorded>>

\* lines 295-300: the sub-task of venue v completes with the venue's reply
VenueReturn(t, sym, v, reply) ==
    /\ sym \in DOMAIN th[t].tasks
    /\ TaskOf(t, sym).pc = "rates"
    /\ v \in TaskOf(t, sym).pending
    /\ LET r == fetch_funding_rate(reply)
       IN  SetTask(t, sym,
             [TaskOf(t, sym) EXCEPT
                !.pending = @ \ {v},
                !.quoted = IF reply.ok THEN @ \cup {<<v, reply.rate, reply>>}
                           ELSE @,
                !.rates = IF r.ok
                          THEN Append(@, [ex |-> v, rate |-> r.rate,
                                          interval |-> r.interval_hours])
                          ELSE @])
    /\ UNCHANGED <<Frame, fee_schedule, history, recorded>>

\* the selection made on the rates received so far, without the join of
\* lines 295-300
Select_early(t, sym) ==
    /\ sym \in DOMAIN th[t].tasks
    /\ TaskOf(t, sym).pc = "rates"
    /\ LET task == TaskOf(t, sym)
       IN  IF too_few_rates(task.rates)
           THEN SetTask(t, sym, Dropped(task, FALSE))
           ELSE \E sel \in {select_venues(task.rates)} :
                   SetTask(t, sym,
                     IF ~sel.ok THEN Dropped(task, TRUE)
                     ELSE [task EXCEPT !.pc = "book_long", !.sel = sel])
    /\ UNCHANGED <<Frame, fee_schedule, history, recorded>>

\* lines 302-316, once every sub-task has completed
Select(t, sym) ==
    /\ sym \in DOMAIN th[t].tasks
    /\ TaskOf(t, sym).pc = "rates"
    /\ TaskOf(t, sym).pending = {}
    /\ LET task == TaskOf(t, sym)
       IN  IF too_few_rates(task.rates)
           THEN SetTask(t, sym, Dropped(task, FALSE))
           ELSE \E sel \in {select_venues(task.rates)} :
                   SetTask(t, sym,
                     IF ~sel.ok THEN Dropped(task, TRUE)
                     ELSE [task EXCEPT !.pc = "book_long", !.sel = sel])
    /\ UNCHANGED <<Frame, fee_schedule, history, recorded>>

\* line 319
BookLong(t, sym, reply) ==
    /\ sym \in DOMAIN th[t].tasks
    /\ TaskOf(t, sym).pc = "book_long"
    /\ SetTask(t, sym, [TaskOf(t, sym) EXCEPT
                          !.pc = "book_short",
                          !.long_book = fetch_orderbook_price(reply, "long")])
    /\ UNCHANGED <<Frame, fee_schedule, history, recorded>>

\* lines 320-351
BookShort(t, sym, reply) ==
    /\ sym \in DOMAIN th[t].tasks
    /\ TaskOf(t, sym).pc = "book_short"
    /\ LET task == TaskOf(t, sym)
           short_book == fetch_orderbook_price(reply, "short")
       IN  IF ~task.long_book.ok \/ ~short_book.ok
           THEN /\ SetTask(t, sym,
                      Dropped([task EXCEPT !.short_book = short_book], FALSE))
                /\ UNCHANGED fee_schedule
           ELSE /\ SetTask(t, sym,
                      [task EXCEPT !.pc = "h_check",
                                   !.short_book = short_book,
                                   !.cost = costs(task.sel, task.long_book,
                                                  short_book)])
                /\ fee_schedule' = fee_table_after(fee_schedule, task.sel.min_ex,
                                                   task.sel.max_ex)
    /\ UNCHANGED <<Frame, history, recorded>>

\* line 354
HCheck(t, sym) ==
    /\ sym \in DOMAIN th[t].tasks
    /\ TaskOf(t, sym).pc = "h_check"
    /\ SetTask(t, sym, [TaskOf(t, sym) EXCEPT
                          !.pc = IF sym \notin DOMAIN history THEN "h_init"
                                 ELSE "h_append"])
    /\ UNCHANGED <<Frame, fee_schedule, history, recorded>>

\* line 355
HInit(t, sym) ==
    /\ sym \in DOMAIN th[t].tasks
    /\ TaskOf(t, sym).pc = "h_init"
    /\ history' = [s \in DOMAIN history \cup {sym} |->
                      IF s = sym THEN <<>> ELSE history[s]]
    /\ SetTask(t, sym, [TaskOf(t, sym) EXCEPT !.pc = "h_append"])
    /\ UNCHANGED <<Frame, fee_schedule, recorded>>

\* the differential appended twice
HAppend_twice(t, sym) ==
    /\ sym \in DOMAIN th[t].tasks
    /\ TaskOf(t, sym).pc = "h_append"
    /\ history' = [history EXCEPT ![sym] =
                      Append(Append(@, TaskOf(t, sym).sel.rate_diff),
                             TaskOf(t, sym).sel.rate_diff)]
    /\ recorded' = [s \in DOMAIN recorded \cup {sym} |->
                       IF s = sym
                       THEN Append(Append(RecordedOf(sym), TaskOf(t, sym).sel.rate_diff),
                                   TaskOf(t, sym).sel.rate_diff)
                       ELSE recorded[s]]
    /\ SetTask(t, sym, [TaskOf(t, sym) EXCEPT !.pc = "h_len", !.appends = @ + 2])
    /\ UNCHANGED <<Frame, fee_schedule>>

\* line 356
HAppend(t, sym) ==
    /\ sym \in DOMAIN th[t].tasks
    /\ TaskOf(t, sym).pc = "h_append"
    /\ history' = [history EXCEPT ![sym] = Append(@, TaskOf(t, sym).sel.rate_diff)]
    /\ recorded' = [s \in DOMAIN recorded \cup {sym} |->
                       IF s = sym
                       THEN Append(RecordedOf(sym), TaskOf(t, sym).sel.rate_diff)
                       ELSE recorded[s]]
    /\ SetTask(t, sym, [TaskOf(t, sym) EXCEPT !.pc = "h_len", !.appends = @ + 1])
    /\ UNCHANGED <<Frame, fee_schedule>>

\* line 357
HLen(t, sym) ==
    /\ sym \in DOMAIN th[t].tasks
    /\ TaskOf(t, sym).pc = "h_len"
    /\ SetTask(t, sym, [TaskOf(t, sym) EXCEPT
                          !.pc = IF over_cap(history[sym]) THEN "h_pop"
                                 ELSE "sigma_len"])
    /\ UNCHANGED <<Frame, fee_schedule, history, recorded>>

\* line 358; pop(0) of an empty list raises IndexError
HPop(t, sym) ==
    /\ sym \in DOMAIN th[t].tasks
    /\ TaskOf(t, sym).pc = "h_pop"
    /\ IF history[sym] = <<>>
       THEN /\ SetTask(t, sym, Dropped(TaskOf(t, sym), TRUE))
            /\ UNCHANGED history
       ELSE /\ history' = [history EXCEPT ![sym] = pop0(@)]
            /\ SetTask(t, sym, [TaskOf(t, sym) EXCEPT !.pc = "sigma_len"])
    /\ UNCHANGED <<Frame, fee_schedule, recorded>>

\* line 360, the condition
SigmaLen(t, sym) ==
    /\ sym \in DOMAIN th[t].tasks
    /\ TaskOf(t, sym).pc = "sigma_len"
    /\ SetTask(t, sym,
         IF Len(history[sym]) > MinSamples
         THEN [TaskOf(t, sym) EXCEPT !.pc = "sigma_std"]
         ELSE [TaskOf(t, sym) EXCEPT !.pc = "enrich", !.sigma_sq = PlaceholderVar])
    /\ UNCHANGED <<Frame, fee_schedule, history, recorded>>

\* line 360, np.std of the list as it is now
SigmaStd(t, sym) ==
    /\ sym \in DOMAIN th[t].tasks
    /\ TaskOf(t, sym).pc = "sigma_std"
    /\ SetTask(t, sym, [TaskOf(t, sym) EXCEPT !.pc = "enrich",
                                              !.sigma_sq = np_var(history[sym])])
    /\ UNCHANGED <<Frame, fee_schedule, history, recorded>>

\* lines 362-422: the four analyzer calls answer as in calls
Enrich(t, sym, analyzer_calls) ==
    /\ sym \in DOMAIN th[t].tasks
    /\ TaskOf(t, sym).pc = "enrich"
    /\ LET task == TaskOf(t, sym)
           analysis == IF funding_analyzer THEN funding_analysis(analyzer_calls)
                       ELSE {}
       IN  SetTask(t, sym,
             [task EXCEPT !.pc = "done",
                          !.analyzer = IF funding_analyzer THEN analyzer_calls
                                       ELSE <<>>,
                          !.result = <<opportunity(sym, task.sel, task.cost,
                                                   task.sigma_sq, analysis)>>])
    /\ UNCHANGED <<Frame, fee_schedule, history, recorded>>

\* ---------------------------------------------------------- the scan loop

\* lines 266-277: as_completed yields a finished future
Collect(t, sym) ==
    /\ th[t].pc = "collect"
    /\ sym \in DOMAIN th[t].tasks
    /\ sym \notin th[t].collected
    /\ TaskOf(t, sym).pc = "done"
    /\ LET n == th[t].completed + 1
           total == Len(th[t].symbols)
       IN  th' = [th EXCEPT
             ![t].completed = n,
             ![t].collected = @ \cup {sym},
             ![t].progress = IF th[t].cb = "none" THEN @
                             ELSE reported(@, n, total, TaskOf(t, sym)),
             ![t].pc = IF th[t].cb = "raise" THEN "unwind" ELSE "collect",
             ![t].opportunities = IF th[t].cb = "raise" THEN @
                                  ELSE appended(@, TaskOf(t, sym))]
    /\ UNCHANGED <<Frame, fee_schedule, history, recorded>>

AllDone(t) == \A sym \in DOMAIN th[t].tasks : TaskOf(t, sym).pc = "done"

\* line 280, after the executor has shut down
Finish(t) ==
    /\ th[t].pc = "collect"
    /\ th[t].collected = DOMAIN th[t].tasks
    /\ th' = [th EXCEPT ![t].pc = "returned",
                        ![t].result = sorted_by_apr(th[t].opportunities)]
    /\ UNCHANGED <<Frame, fee_schedule, history, recorded>>

\* an exception of the progress callback (line 269) leaves the with block,
\* which waits for every submitted task, and then leaves the scan
Unwind(t) ==
    /\ th[t].pc = "unwind"
    /\ AllDone(t)
    /\ th' = [th EXCEPT ![t].pc = "raised"]
    /\ UNCHANGED <<Frame, fee_schedule, history, recorded>>

\* the wall clock advances
Tick(d, max_time) ==
    /\ now + d <= max_time
    /\ now' = now + d
    /\ UNCHANGED <<use_mock, fee_schedule, exchanges, funding_analyzer, cache, cache_lock,
                   history, recorded, th, calls>>

\* ------------------------------------------- main_system.run_market_scan
\* The loop runs in the thread that calls the scan; its positions are "idle"
\* (line 28), the positions of the scan, "returned" (line 35), "balance"
\* (line 59), "caught" (line 61) and "end_iter" (line 64).

\* the keys of the dictionary of lines 404-422 and 430-511 built from a
\* record: sigma is stored as its square, the observation time is left out
record_keys(o) == ((DOMAIN o) \ {"sigma_sq"}) \cup {"sigma", "timestamp"}

\* the keys lines 47-56 read from each record they print
DisplayKeys ==
    {"short_ex", "short_rate", "long_ex", "long_rate", "depth", "symbol", "apr",
     "spread_price", "sigma"}

\* lines 46-56 raise KeyError on the first record that lacks a key
display_raises(opportunities) ==
    \E i \in DOMAIN Prefix(opportunities, 5) :
        ~(DisplayKeys \subseteq record_keys(opportunities[i]))

\* lines 28-33: an iteration begins and calls the scan without a callback
LoopScan(t, max_iterations) ==
    /\ th[t].pc = "idle"
    /\ Call(t, "scan", DefaultLimit, "none", max_iterations)

\* lines 35-56: the list is reported
Display(t) ==
    /\ th[t].op = "scan"
    /\ th[t].pc = "returned"
    /\ th' = [th EXCEPT ![t].pc =
                 IF th[t].result = <<>> THEN "balance"
                 ELSE IF display_raises(th[t].result) THEN "caught"
                 ELSE "balance"]
    /\ UNCHANGED <<Frame, fee_schedule, history, recorded>>

\* line 59: guard.balance_security_transfer() (risk_guard.py lines 112-130
\* compute over the three accounts of the constructor and return)
Balance(t) ==
    /\ th[t].pc = "balance"
    /\ calls' = [calls EXCEPT !.balance = @ + 1]
    /\ th' = [th EXCEPT ![t].pc = "end_iter"]
    /\ UNCHANGED <<use_mock, fee_schedule, exchanges, funding_analyzer, cache, cache_lock,
                   history, recorded, now>>

\* lines 61-62: an exception of the scan or of the report is printed
Caught(t) ==
    /\ th[t].op = "scan"
    /\ th[t].pc \in {"caught", "raised"}
    /\ th' = [th EXCEPT ![t].pc = "end_iter"]
    /\ UNCHANGED <<Frame, fee_schedule, history, recorded>>

\* lines 64-65: time.sleep(60), then the next iteration
Sleep(t) ==
    /\ th[t].pc = "end_iter"
    /\ now' = now + SleepSeconds
    /\ th' = [th EXCEPT ![t].pc = "idle"]
    /\ UNCHANGED <<use_mock, fee_schedule, exchanges, funding_analyzer, cache, cache_lock,
                   history, recorded, calls>>

\* ------------------------------------------------- the venues' replies

\* a funding-rate reply: failed, or a rate with the fields the interval is
\* read from
RateFail ==
    [ok |-> FALSE, rate |-> 0, has_hours |-> FALSE, hours |-> 0,
     has_ts |-> FALSE, next_ts |-> 0, cur_ts |-> 0]
RatePlain(r) == [RateFail EXCEPT !.ok = TRUE, !.rate = r]
RateHours(r, h) == [RatePlain(r) EXCEPT !.has_hours = TRUE, !.hours = h]
\* the next funding is ms milliseconds after the reply's own timestamp
RateTs(r, ms) ==
    [RatePlain(r) EXCEPT !.has_ts = TRUE, !.cur_ts = HourMs, !.next_ts = HourMs + ms]

\* an order book reply: failed, or the ask and bid levels <<price, volume>>
BookFail == [ok |-> FALSE, asks |-> <<>>, bids |-> <<>>]
BookEmpty == [ok |-> TRUE, asks |-> <<>>, bids |-> <<>>]
Book(p) == [ok |-> TRUE, asks |-> <<<<p, 1>>, <<p + 1, 2>>>>, bids |-> <<<<p, 1>>>>]

\* a fetch_tickers reply: failed, or the tickers in the reply's order
Ticker(sym, vol) == [symbol |-> sym, kind |-> "num", quoteVolume |-> vol]
TickersFail == [ok |-> FALSE, tickers |-> <<>>]
Tickers(seq) == [ok |-> TRUE, tickers |-> seq]

\* ------------------------------------------------------------ scenarios
\* What the venues may reply in each specification.
\*   "two"      BTC/USDT and ETH/USDT, each venue failing or quoting its rate
\*   "one"      BTC/USDT alone, over rates, interval fields and book prices
\*   "ramp"     BTC/USDT alone; the k-th scan sees the differential k
\*   "warm"     BTC/USDT alone, always the differential 1
\*   "universe" no venue answers a funding-rate query
\*   "loop"     BTC/USDT, and ETH/USDT when the universe is the fallback
\*              list, each venue failing or quoting its rate
\*   "example"  BTC/USDT alone, binance quoting 0.0001 and bybit 0.0001 or
\*              0.0006, with prices in cents around 100.00

MaxRate == 2

\* the rate venue v quotes for sym when it answers
NominalRate(sym, v) ==
    IF v = "binance" THEN 0
    ELSE IF v = "bybit" THEN (IF sym = "BTC/USDT" THEN 1 ELSE MaxRate)
    ELSE MaxRate

\* a reply without interval fields, one with fundingIntervalHours = 4, and
\* two with the next funding 30 minutes ahead and 2 hours behind
IntervalReplies ==
    {RateHours(MaxRate, 4), RateTs(0, HourMs \div 2), RateTs(1, (-2) * HourMs)}

RateReplies(sc, sym, v) ==
    CASE sc = "two" ->
           {RateFail, RatePlain(NominalRate(sym, v))}
           \cup (IF sym = "ETH/USDT" /\ v = "okx"
                 THEN {RateTs(NominalRate(sym, v), HourMs \div 2)} ELSE {})
      [] sc = "one" ->
           {RateFail} \cup {RatePlain(r) : r \in 0..MaxRate} \cup IntervalReplies
      [] sc = "ramp" ->
           {RatePlain(IF v = "binance" THEN 0 ELSE calls.scan)}
      [] sc = "warm" ->
           {RatePlain(IF v = "binance" THEN 0 ELSE 1)}
      [] sc = "loop" ->
           {RateFail, RatePlain(NominalRate(sym, v))}
      [] sc = "example" ->
           IF v = "binance" THEN {RatePlain(1), RateHours(1, 4)}
           ELSE {RatePlain(1), RatePlain(6), RateHours(6, 8), RateTs(6, 3 * HourMs)}
      [] OTHER -> {RateFail}

LongBookReplies(sc, sym) ==
    CASE sc = "two" -> IF sym = "BTC/USDT" THEN {BookFail, Book(10000)}
                       ELSE {Book(10000)}
      [] sc = "one" -> {BookFail, BookEmpty, Book(9900), Book(9986), Book(10100)}
      [] sc = "example" -> {Book(10000), Book(10010)}
      [] OTHER -> {Book(10000)}

ShortBookReplies(sc, sym) ==
    CASE sc = "two" -> IF sym = "BTC/USDT" THEN {BookFail, Book(10000)}
                       ELSE {Book(10000)}
      [] sc = "one" -> {BookFail, Book(10000), Book(0)}
      [] sc = "example" -> {Book(10000), Book(0)}
      [] OTHER -> {Book(10000)}

AnalyzerReplies(sc) ==
    IF sc = "one" THEN {<<"ok", "ok", "ok", "ok">>, <<"ok", "raise", "ok", "ok">>,
                        <<"raise", "ok", "ok", "ok">>}
    ELSE {<<"ok", "ok", "ok", "ok">>}

TickerReplies(sc) ==
    IF sc \in {"two", "universe"}
    THEN {TickersFail,
          Tickers(<<Ticker("BTC/USDT", 5)>>),
          Tickers(<<Ticker("ETH/USDT", 3), Ticker("BTC/USDT:USDT", 9),
                    Ticker("BTC/USDT", 5)>>),
          Tickers(<<[symbol |-> "ETH/USDT", kind |-> "none", quoteVolume |-> 0]>>)}
    ELSE {Tickers(<<Ticker("BTC/USDT", 5)>>)}

Symbols(sc) ==
    IF sc \in {"two", "universe", "loop"} THEN {"BTC/USDT", "ETH/USDT"}
    ELSE {"BTC/USDT"}

\* the steps of a scan that every specification takes
ScanSteps(sc) ==
    \/ \E t \in Threads : UCheck(t)
    \/ \E t \in Threads : \E reply \in TickerReplies(sc) : UFetch(t, reply)
    \/ \E t \in Threads : ULock(t)
    \/ \E t \in Threads : UWrite(t)
    \/ \E t \in Threads : Submit(t)
    \/ \E t \in Threads, sym \in Symbols(sc) : TaskStart(t, sym)
    \/ \E t \in Threads, sym \in Symbols(sc) : Select(t, sym)
    \/ \E t \in Threads, sym \in Symbols(sc) : Collect(t, sym)
    \/ \E t \in Threads : Finish(t)
    \/ \E t \in Threads, sym \in Symbols(sc), v \in Venues :
          \E reply \in RateReplies(sc, sym, v) : VenueReturn(t, sym, v, reply)

\* the steps of a task whose venues answered
QuoteSteps(sc) ==
    \/ \E t \in Threads, sym \in Symbols(sc) :
          \E reply \in LongBookReplies(sc, sym) : BookLong(t, sym, reply)
    \/ \E t \in Threads, sym \in Symbols(sc) :
          \E reply \in ShortBookReplies(sc, sym) : BookShort(t, sym, reply)
    \/ \E t \in Threads, sym \in Symbols(sc) : HCheck(t, sym)
    \/ \E t \in Threads, sym \in Symbols(sc) : HInit(t, sym)
    \/ \E t \in Threads, sym \in Symbols(sc) : HAppend(t, sym)
    \/ \E t \in Threads, sym \in Symbols(sc) : HLen(t, sym)
    \/ \E t \in Threads, sym \in Symbols(sc) : SigmaLen(t, sym)
    \/ \E t \in Threads, sym \in Symbols(sc) :
          \E reply \in AnalyzerReplies(sc) : Enrich(t, sym, reply)

\* the steps of a task on a list of more than MinSamples differentials
LongHistorySteps(sc) ==
    \/ \E t \in Threads, sym \in Symbols(sc) : HPop(t, sym)
    \/ \E t \in Threads, sym \in Symbols(sc) : SigmaStd(t, sym)

\* ------------------------------------------------------- specification Spec
\* One caller makes one scan, with a progress callback, on an engine
\* constructed in any way.  Every venue may fail or answer on every call;
\* BTC/USDT and ETH/USDT quote different rates, so that the two annualized
\* returns come in both orders and tie.

MaxScans == 1

Init ==
    /\ Constructed
    /\ th = <<IdleThread>>

Next ==
    \/ \E t \in Threads : Call(t, "scan", DefaultLimit, "ok", MaxScans)
    \/ ScanSteps("two")
    \/ QuoteSteps("two")

Spec == Init /\ [][Next]_vars

\* ---------------------------------------------------- specification SpecOne
\* One caller makes one scan of the one instrument the reference venue lists;
\* the venues' replies range over rates, interval fields and book prices.

InitOne ==
    /\ Constructed
    /\ ~use_mock
    /\ ReferenceVenue \in exchanges
    /\ th = <<IdleThread>>

NextOne ==
    \/ \E t \in Threads : Call(t, "scan", DefaultLimit, "none", MaxScans)
    \/ ScanSteps("one")
    \/ QuoteSteps("one")

SpecOne == InitOne /\ [][NextOne]_vars

\* ---------------------------------------------------- specification SpecSeq
\* One caller scans BTC/USDT again and again on an engine with two venues;
\* the k-th scan records the differential k.

MaxSeqScans == 52

InitSeq ==
    /\ Constructed
    /\ ~use_mock
    /\ exchanges = {"binance", "bybit"}
    /\ th = <<IdleThread>>

NextSeq ==
    \/ \E t \in Threads : Call(t, "scan", DefaultLimit, "none", MaxSeqScans)
    \/ ScanSteps("ramp")
    \/ QuoteSteps("ramp")
    \/ LongHistorySteps("ramp")

SpecSeq == InitSeq /\ [][NextSeq]_vars

\* --------------------------------------------------- specification SpecWarm
\* Several callers scan BTC/USDT at the same time on one engine with two
\* venues.  The engine is new, or it has already made HistoryCap - 1 or HistoryCap
\* scans of the constant differential 1 (which filled the cache and the
\* list).

WarmThreads == 2
MaxWarmScans == 2

WarmList(n) == [i \in 1..n |-> 1]

InitWarm ==
    /\ use_mock = FALSE
    /\ exchanges = {"binance", "bybit"}
    /\ funding_analyzer = TRUE
    /\ cache_lock = 0
    /\ now = 0
    /\ calls = [scan |-> 0, select |-> 0, balance |-> 0]
    /\ \/ /\ history = EmptyDict
          /\ cache = EmptyCache
       \/ /\ history \in {[sym \in {"BTC/USDT"} |-> WarmList(n)] :
                            n \in {HistoryCap - 1, HistoryCap}}
          /\ cache = [has |-> TRUE, time |-> 0, data |-> <<"BTC/USDT">>]
    /\ recorded = history
    /\ fee_schedule = FEE_SCHEDULE
    /\ th = [t \in 1..WarmThreads |-> IdleThread]

NextWarm ==
    \/ \E t \in Threads : Call(t, "scan", DefaultLimit, "none", MaxWarmScans)
    \/ ScanSteps("warm")
    \/ QuoteSteps("warm")
    \/ LongHistorySteps("warm")

SpecWarm == InitWarm /\ [][NextWarm]_vars

\* ----------------------------------------------- specification SpecUniverse
\* One caller selects the universe and scans, on an engine constructed in any
\* way, while the clock advances across the cache's time to live.  No venue
\* answers a funding-rate query.

MaxUniverseCalls == 2

TickSteps == {TTL - 1, TTL}

InitUniverse ==
    /\ Constructed
    /\ th = <<IdleThread>>

NextUniverse ==
    \/ \E t \in Threads : \E limit \in {1, DefaultLimit} :
          Call(t, "select", limit, "none", MaxUniverseCalls)
    \/ \E t \in Threads : Call(t, "scan", DefaultLimit, "none", MaxUniverseCalls)
    \/ ScanSteps("universe")
    \/ \E d \in TickSteps : Tick(d, 2 * TTL)

SpecUniverse == InitUniverse /\ [][NextUniverse]_vars

\* --------------------------------------------------- specification SpecFees
\* _calculate_fees is called with every pair of venues, listed in the fee
\* table or not, and both compositions, on an engine constructed in any way.

FeeVenues == Venues \cup {"kraken"}

InitFees ==
    /\ Constructed
    /\ th = <<IdleThread>>

NextFees ==
    \E t \in Threads : \E long_ex \in FeeVenues, short_ex \in FeeVenues :
        \E assume_maker \in BOOLEAN : CallFees(t, long_ex, short_ex, assume_maker)

SpecFees == InitFees /\ [][NextFees]_vars

\* ------------------------------------------------ specification SpecExample
\* One caller makes one scan of BTC/USDT on an engine with binance and bybit.
\* The fee table is the one of lines 27-32 or has been replaced by a table
\* of zero rates.

ZeroFees == [ex \in Venues |-> [maker |-> 0, taker |-> 0]]

InitExample ==
    /\ use_mock = FALSE
    /\ exchanges = {"binance", "bybit"}
    /\ funding_analyzer = TRUE
    /\ cache = EmptyCache
    /\ cache_lock = 0
    /\ history = EmptyDict
    /\ now = 0
    /\ calls = [scan |-> 0, select |-> 0, balance |-> 0]
    /\ recorded = EmptyDict
    /\ fee_schedule \in {FEE_SCHEDULE, ZeroFees}
    /\ th = <<IdleThread>>

NextExample ==
    \/ \E t \in Threads : Call(t, "scan", DefaultLimit, "none", MaxScans)
    \/ ScanSteps("example")
    \/ QuoteSteps("example")

SpecExample == InitExample /\ [][NextExample]_vars

\* --------------------------------------------------- specification SpecLive
\* One caller makes one scan, without a callback, with one that returns or
\* with one that raises, on an engine with any of binance and bybit
\* configured.  Every venue call returns a value or fails, and every thread
\* that can take a step is scheduled: a step of the scan that stays possible
\* is eventually taken.

Callbacks == {"none", "ok", "raise"}

LiveSteps ==
    \/ ScanSteps("two")
    \/ QuoteSteps("two")
    \/ \E t \in Threads : Unwind(t)

InitLive ==
    /\ Constructed
    /\ exchanges \subseteq {"binance", "bybit"}
    /\ th = <<IdleThread>>

NextLive ==
    \/ \E t \in Threads : \E cb \in Callbacks :
          Call(t, "scan", DefaultLimit, cb, MaxScans)
    \/ ScanSteps("two")
    \/ QuoteSteps("two")
    \/ \E t \in Threads : Unwind(t)

SpecLive == InitLive /\ [][NextLive]_vars /\ WF_vars(LiveSteps)

\* --------------------------------------------------- specification SpecWide
\* One caller scans a universe of more instruments than the pool has workers,
\* on an engine with binance configured whose cache holds that universe.  The
\* pool's work queue is first in, first out: the tasks are taken up in the
\* order of their submission.  The venue fails every funding-rate query, and
\* the scan is followed until its tasks have ended.

WideSize == 11

WideNames ==
    <<"BTC/USDT", "ETH/USDT", "SOL/USDT", "ARB/USDT", "OP/USDT", "XRP/USDT",
      "ADA/USDT", "DOT/USDT", "LTC/USDT", "TRX/USDT", "UNI/USDT", "XLM/USDT">>

WideUniverse == SubSeq(WideNames, 1, WideSize)

WideSymbols == {WideUniverse[i] : i \in 1..Len(WideUniverse)}

\* sym is the first submitted task of thread t that no worker has taken up
FirstQueued(t, sym) ==
    \E i \in 1..Len(th[t].symbols) :
        /\ th[t].symbols[i] = sym
        /\ TaskOf(t, sym).pc = "queued"
        /\ \A j \in 1..(i - 1) : TaskOf(t, th[t].symbols[j]).pc # "queued"

InitWide ==
    /\ use_mock = FALSE
    /\ exchanges = {"binance"}
    /\ funding_analyzer = TRUE
    /\ cache = [has |-> TRUE, time |-> 0, data |-> WideUniverse]
    /\ cache_lock = 0
    /\ history = EmptyDict
    /\ now = 0
    /\ calls = [scan |-> 0, select |-> 0, balance |-> 0]
    /\ recorded = EmptyDict
    /\ fee_schedule = FEE_SCHEDULE
    /\ th = <<IdleThread>>

NextWide ==
    \/ \E t \in Threads : Call(t, "scan", DefaultLimit, "none", MaxScans)
    \/ \E t \in Threads : UCheck(t)
    \/ \E t \in Threads : Submit(t)
    \/ \E t \in Threads, sym \in WideSymbols :
          /\ sym \in DOMAIN th[t].tasks
          /\ FirstQueued(t, sym)
          /\ TaskStart(t, sym)
    \/ \E t \in Threads, sym \in WideSymbols, v \in Venues :
          VenueReturn(t, sym, v, RateFail)
    \/ \E t \in Threads, sym \in WideSymbols : Select(t, sym)

SpecWide == InitWide /\ [][NextWide]_vars

\* --------------------------------------------------- specification SpecMain
\* main_system.run_market_scan on the live engine of line 71, with any set
\* of venues configured: the loop scans the universe, reports the list,
\* checks the balance and sleeps, each venue failing or quoting its rate on
\* every call.  Every step that stays possible is eventually taken.

MaxIterations == 2

LoopSteps ==
    \/ \E t \in Threads : Display(t)
    \/ \E t \in Threads : Balance(t)
    \/ \E t \in Threads : Caught(t)
    \/ \E t \in Threads : Sleep(t)

InitMain ==
    /\ Constructed
    /\ ~use_mock
    /\ th = <<IdleThread>>

NextMain ==
    \/ \E t \in Threads : LoopScan(t, MaxIterations)
    \/ ScanSteps("loop")
    \/ QuoteSteps("loop")
    \/ LoopSteps

SpecMain == InitMain /\ [][NextMain]_vars /\ WF_vars(NextMain)

\* ------------------------------------------------------------- claims

\* the scans of the live engine that have returned their list
ReturnedScans ==
    {t \in Threads : th[t].op = "scan" /\ th[t].pc = "returned" /\ ~use_mock}

\* the Opportunities a scan has returned
Returned(t) == {th[t].result[i] : i \in 1..Len(th[t].result)}

\* the venues that reported a usable funding rate to the task of sym
Quoting(t, sym) == {q[1] : q \in TaskOf(t, sym).quoted}

\* C1: every Opportunity a scan returns is for an instrument for which at
\* least two venues returned a usable funding rate in that cycle, and a scan
\* in which every instrument got at most one usable rate returns the empty
\* list.
C1_TwoUsableRates ==
    \A t \in ReturnedScans :
        /\ \A o \in Returned(t) : Cardinality(Quoting(t, o.symbol)) >= 2
        /\ (\A sym \in DOMAIN th[t].tasks : Cardinality(Quoting(t, sym)) <= 1)
               => th[t].result = <<>>

\* a scan returned an Opportunity for an instrument that one of three
\* configured venues failed to quote
C1_Witness ==
    \E t \in ReturnedScans : \E o \in Returned(t) :
        /\ Cardinality(Quoting(t, o.symbol)) = 2
        /\ Cardinality(exchanges) = 3

\* C2: in every Opportunity a scan returns the long and the short venue
\* differ, the long venue reported the minimum and the short venue the
\* maximum of the rates reported for the instrument, and the rate
\* differential is the short venue's rate minus the long venue's.
C2_LongMinShortMax ==
    \A t \in ReturnedScans : \A o \in Returned(t) :
        LET quoted == TaskOf(t, o.symbol).quoted
        IN  /\ o.long_ex # o.short_ex
            /\ \E lq \in quoted : \E sq \in quoted :
                  /\ lq[1] = o.long_ex
                  /\ sq[1] = o.short_ex
                  /\ \A q \in quoted : lq[2] <= q[2] /\ q[2] <= sq[2]
                  /\ o.rate_diff = Frac(sq[2] - lq[2])

\* a scan returned an Opportunity for an instrument on which three venues
\* reported the same rate
C2_Witness ==
    \E t \in ReturnedScans : \E o \in Returned(t) :
        /\ Cardinality(TaskOf(t, o.symbol).quoted) = 3
        /\ \A p \in TaskOf(t, o.symbol).quoted :
              \A q \in TaskOf(t, o.symbol).quoted : p[2] = q[2]

\* C3: in every Opportunity a scan returns the breakeven days are >= 0, and
\* they are 0 exactly when the total cost is <= 0.
C3_Breakeven ==
    \A t \in ReturnedScans : \A o \in Returned(t) :
        /\ RLe(RZero, o.breakeven_days)
        /\ (o.breakeven_days = RZero) <=> RLe(o.total_cost, RZero)

\* a scan returned an Opportunity of negative total cost and positive
\* differential
C3_Witness ==
    \E t \in ReturnedScans : \E o \in Returned(t) :
        /\ RLt(o.total_cost, RZero)
        /\ RLt(RZero, o.rate_diff)
        /\ o.funding_interval = 4

\* the scans that are between the append (line 356) and the end of the
\* eviction step (lines 357-358) of the task of sym
Recording(sym) ==
    {t \in Threads : /\ sym \in DOMAIN th[t].tasks
                     /\ TaskOf(t, sym).pc \in {"h_len", "h_pop"}}

\* C4: whenever no task is between its append and the end of its eviction
\* step, every instrument's list holds at most 50 differentials, also when
\* scans overlap in time.
C4_WindowAtMostCap ==
    \A sym \in DOMAIN history :
        Recording(sym) = {} => Len(history[sym]) <= HistoryCap

\* two scans that run at the same time have both recorded a differential in
\* a list that was full
C4_Witness ==
    /\ Len(RecordedOf("BTC/USDT")) = HistoryCap + 2
    /\ "BTC/USDT" \in DOMAIN history
    /\ Len(history["BTC/USDT"]) = HistoryCap
    /\ \A t \in Threads : /\ th[t].pc = "collect"
                          /\ "BTC/USDT" \in DOMAIN th[t].tasks
                          /\ TaskOf(t, "BTC/USDT").pc = "sigma_len"

\* the last n elements of seq, in their order
LastOf(seq, n) ==
    IF Len(seq) <= n THEN seq ELSE SubSeq(seq, Len(seq) - n + 1, Len(seq))

\* C5: when differentials are recorded one scan after the other, the list
\* holds, after each recording, exactly the last 50 of the differentials
\* recorded so far, in the order of their insertion.
C5_Fifo ==
    \A sym \in DOMAIN history :
        Recording(sym) = {} => history[sym] = LastOf(RecordedOf(sym), HistoryCap)

\* after d1..d51 = 1..51 the list is d2..d51
C5_Witness ==
    /\ Recording("BTC/USDT") = {}
    /\ RecordedOf("BTC/USDT") = [i \in 1..(HistoryCap + 1) |-> i]
    /\ "BTC/USDT" \in DOMAIN history
    /\ history["BTC/USDT"] = [i \in 1..HistoryCap |-> i + 1]

\* the square of the sample standard deviation (divisor n - 1) of a window
\* of two or more values
sample_var(window) ==
    LET n == Len(window)
        sx == SumSeq(window)
        sxx == SumSeq([i \in 1..n |-> window[i] * window[i]])
    IN  Rat(n * sxx - sx * sx, n * (n - 1))

\* C6: the volatility of a returned Opportunity is the placeholder 0.0001
\* when the instrument's list, the current differential included, holds
\* fewer than 6 samples, and the sample standard deviation of the list when
\* it holds 6 or more (0 for a list of identical differentials).
C6_SampleStd ==
    \A t \in ReturnedScans : \A o \in Returned(t) :
        LET window == history[o.symbol]
        IN  /\ Len(window) < 6 => o.sigma_sq = PlaceholderVar
            /\ Len(window) >= 6 => o.sigma_sq = sample_var(window)
            /\ (Len(window) >= 6 /\ \A i \in 1..Len(window) : window[i] = window[1])
                   => o.sigma_sq = RZero

\* C7: the list a scan returns, live or mock, is in descending order of
\* annualized return: each entry's return is >= the next entry's.
C7_SortedByApr ==
    \A t \in Threads :
        (th[t].op = "scan" /\ th[t].pc = "returned") =>
            \A i \in 1..(Len(th[t].result) - 1) :
                RLe(th[t].result[i + 1].apr, th[t].result[i].apr)

\* a live scan whose tasks completed in ascending order of return
C7_Witness ==
    \E t \in ReturnedScans :
        /\ Len(th[t].result) = 2
        /\ RLt(th[t].result[2].apr, th[t].result[1].apr)
        /\ th[t].opportunities # th[t].result

\* an order-book query of the task failed
BookFailed(task) == task.sel.ok /\ (~task.long_book.ok \/ ~task.short_book.ok)

\* C8: when a venue fails on every call of a scan while two or more other
\* venues answer the funding-rate and order-book queries for an instrument,
\* the scan returns an Opportunity for the instrument whose long and short
\* venues are among the answering venues.
C8_FailingVenueTolerated ==
    \A t \in ReturnedScans : \A v \in exchanges :
        (\A s \in DOMAIN th[t].tasks : v \notin Quoting(t, s)) =>
            \A sym \in DOMAIN th[t].tasks :
                (Cardinality(Quoting(t, sym)) >= 2 /\ ~BookFailed(TaskOf(t, sym))) =>
                    \E o \in Returned(t) : /\ o.symbol = sym
                                           /\ o.long_ex \in Quoting(t, sym)
                                           /\ o.short_ex \in Quoting(t, sym)

\* the instruments whose task produced an Opportunity
Produced(t) == {sym \in DOMAIN th[t].tasks : TaskOf(t, sym).result # <<>>}

\* C9: a task that raises does not make the scan raise, and the list a scan
\* returns holds exactly the Opportunities its tasks produced, one per
\* instrument whose task produced one and none for a task that raised.
C9_OneFailureIsolated ==
    \A t \in Threads :
        (th[t].op = "scan" /\ ~use_mock) =>
            /\ th[t].pc \notin {"unwind", "raised"}
            /\ th[t].pc = "returned" =>
                  /\ Returned(t) = {TaskOf(t, sym).result[1] : sym \in Produced(t)}
                  /\ Len(th[t].result) = Cardinality(Produced(t))
                  /\ \A sym \in DOMAIN th[t].tasks :
                        TaskOf(t, sym).raised =>
                            \A o \in Returned(t) : o.symbol # sym

\* a scan returned an Opportunity although the task of another instrument
\* raised
C9_Witness ==
    \E t \in ReturnedScans : \E bad \in DOMAIN th[t].tasks :
        /\ TaskOf(t, bad).raised
        /\ \E o \in Returned(t) : o.symbol # bad

\* the calls of the live engine that have their universe although the
\* reference venue is not configured or its ticker query failed
Degraded ==
    {t \in Threads :
        /\ ~use_mock
        /\ th[t].pc \in {"submit", "collect", "returned"}
        /\ \/ ReferenceVenue \notin exchanges
           \/ th[t].tickers_reply \in {"error", "malformed"}}

\* C10: when the reference venue is not configured or its ticker query
\* fails, get_top_volume_symbols does not raise and returns the fallback
\* list, and a scan goes on over the instruments of that list.
C10_FallbackUniverse ==
    /\ \A t \in Threads : th[t].pc # "raised"
    /\ \A t \in Degraded :
          /\ th[t].symbols = FallbackSymbols
          /\ (th[t].op = "select") => th[t].result = FallbackSymbols
          /\ (th[t].op = "scan" /\ th[t].pc # "submit") =>
                DOMAIN th[t].tasks = {"BTC/USDT", "ETH/USDT"}

\* a scan has gone over the fallback instruments after a failed ticker query,
\* while the cache holds the list of an earlier query
C10_Witness ==
    \E t \in Degraded :
        /\ th[t].op = "scan"
        /\ th[t].pc = "returned"
        /\ th[t].tickers_reply = "error"
        /\ cache.has
        /\ \A sym \in {"BTC/USDT", "ETH/USDT"} : TaskOf(t, sym).pc = "done"

\* C11: a call that finds a cache entry written less than 300 seconds ago
\* returns the entry's list without querying the venue; a call that finds an
\* entry of 300 seconds or more does not return it and queries the venue
\* again.
C11_CacheByAge ==
    [][\A t \in Threads :
          (th[t].pc = "u_check" /\ th'[t].pc # "u_check" /\ cache.has) =>
              IF now < cache.time + 300
              THEN /\ th'[t].symbols = cache.data
                   /\ th'[t].tickers_reply = "none"
                   /\ th'[t].pc \in {"submit", "returned"}
              ELSE th'[t].pc = "u_fetch"]_vars

\* a call queries the venue again when the entry is exactly 300 seconds old
C11_Witness ==
    \E t \in Threads :
        /\ th[t].pc = "u_fetch"
        /\ cache.has
        /\ now = cache.time + 300

\* C12: the list a call get_top_volume_symbols(limit) of the live engine
\* returns, from the venue or from the cache, has at most limit instruments
\* and is the first limit instruments, by descending quote volume, of the
\* eligible instruments of a reply of the reference venue.
C12_TopLimit ==
    \A t \in Threads :
        (/\ th[t].op = "select"
         /\ th[t].pc = "returned"
         /\ ~use_mock
         /\ th[t].tickers_reply \in {"ok", "none"}
         /\ ReferenceVenue \in exchanges) =>
            /\ Len(th[t].result) <= th[t].limit
            /\ \E reply \in TickerReplies("universe") :
                  /\ reply.ok
                  /\ ~FilterRaises(reply.tickers)
                  /\ th[t].result = TopSymbols(reply.tickers, th[t].limit)

\* the pair the fee table of lines 27-32 holds for a venue, and the default
\* pair for a venue it does not list
TablePair(ex) ==
    IF ex \in DOMAIN FEE_SCHEDULE THEN FEE_SCHEDULE[ex]
    ELSE [maker |-> 2, taker |-> 5]

\* C13: _calculate_fees returns longTaker + shortTaker + longMaker +
\* shortMaker under the mixed composition and 2 * longTaker + 2 * shortTaker
\* under the all-taker composition, with the default pair for a venue the
\* table does not list, and leaves the fee table as it was.
C13_FeeComposition ==
    /\ fee_schedule = FEE_SCHEDULE
    /\ \A t \in Threads :
          th[t].op = "fees" =>
              LET long == TablePair(th[t].args[1])
                  short == TablePair(th[t].args[2])
              IN  th[t].result =
                      <<IF th[t].args[3]
                        THEN long.taker + short.taker + long.maker + short.maker
                        ELSE 2 * long.taker + 2 * short.taker>>

\* the all-taker fee of a listed and an unlisted venue
C13_Witness ==
    \E t \in Threads :
        /\ th[t].op = "fees"
        /\ th[t].args = <<"bybit", "kraken", FALSE>>
        /\ th[t].result = <<22>>

\* the fee cost in percent under a composition, from the fee table
Composed(long_ex, short_ex, assume_maker) ==
    LET long == TablePair(long_ex)
        short == TablePair(short_ex)
    IN  RMul(Frac(IF assume_maker
                  THEN long.taker + short.taker + long.maker + short.maker
                  ELSE 2 * long.taker + 2 * short.taker),
             RInt(100))

\* C14: whichever composition is selected, mixed (assume_maker) or all-taker,
\* the fee cost of every Opportunity a scan returns is the fee of that
\* composition.  The engine has no state or argument holding the selection,
\* so the selection ranges over both values for every scan.
C14_SelectableComposition ==
    \A assume_maker \in BOOLEAN :
        \A t \in ReturnedScans : \A o \in Returned(t) :
            o.fees = Composed(o.long_ex, o.short_ex, assume_maker)

\* the settlement interval of a venue's funding-rate reply: the hours it
\* states, else the hours from its timestamp to the next funding, else 8
QuotedInterval(reply) ==
    IF reply.has_hours THEN reply.hours
    ELSE IF reply.has_ts THEN TruncHours(reply.next_ts - reply.cur_ts)
    ELSE 8

\* C15: in every Opportunity a scan returns the settlement interval is the
\* minimum of the long and the short venue's intervals (8 hours for a reply
\* without interval fields), the settlements per day are 24 / interval and
\* the annualized return is differential x settlements per day x 365 x 100;
\* rates 0.0001 and 0.0006 at 8 hours, ask 100.00, bid 100.00 and a zero fee
\* table give return 54.75, spread cost 0, total cost 0 and breakeven 0.
C15_Annualized ==
    \A t \in ReturnedScans : \A o \in Returned(t) :
        \E lq \in TaskOf(t, o.symbol).quoted : \E sq \in TaskOf(t, o.symbol).quoted :
            /\ lq[1] = o.long_ex
            /\ sq[1] = o.short_ex
            /\ o.rate_diff = Frac(sq[2] - lq[2])
            /\ o.funding_interval = Min(QuotedInterval(lq[3]), QuotedInterval(sq[3]))
            /\ o.times_per_day = Rat(24, o.funding_interval)
            /\ o.apr = RMul(RMul(RMul(o.rate_diff, o.times_per_day), RInt(365)),
                            RInt(100))
            /\ (/\ lq[2] = 1
                /\ sq[2] = 6
                /\ o.funding_interval = 8
                /\ o.long_price = 10000
                /\ o.short_price = 10000
                /\ fee_schedule = ZeroFees) =>
                   /\ o.apr = Rat(5475, 100)
                   /\ o.spread = RZero
                   /\ o.total_cost = RZero
                   /\ o.breakeven_days = RZero

\* the example of the claim, the two replies carrying no interval
C15_Witness ==
    \E t \in ReturnedScans : \E o \in Returned(t) :
        /\ TaskOf(t, o.symbol).quoted =
               {<<"binance", 1, RatePlain(1)>>, <<"bybit", 6, RatePlain(6)>>}
        /\ o.long_price = 10000
        /\ o.short_price = 10000
        /\ fee_schedule = ZeroFees
        /\ o.apr = Rat(5475, 100)

\* C16: in every Opportunity a scan returns the spread cost is
\* (ask - bid) / bid for a bid above 0, the total cost is spread cost plus fee
\* cost, and for a total cost above 0 the breakeven days are total cost /
\* (differential x settlements per day), or 999 when that daily yield is
\* <= 0.000001; rates 0.0001 and 0.0006 at 8 hours, ask 100.10, bid 100.00
\* and fee cost 0.14% give total cost 0.24% and breakeven 1.6 days.
C16_Costs ==
    \A t \in ReturnedScans : \A o \in Returned(t) :
        LET daily_yield == RMul(o.rate_diff, o.times_per_day)
        IN  /\ o.short_price > 0 =>
                  o.spread = RMul(Rat(o.long_price - o.short_price, o.short_price),
                                  RInt(100))
            /\ o.total_cost = RAdd(o.spread, o.fees)
            /\ RLt(RZero, o.total_cost) =>
                  o.breakeven_days =
                      IF RLe(daily_yield, Rat(1, 1000000)) THEN RInt(999)
                      ELSE RDiv(RDiv(o.total_cost, RInt(100)), daily_yield)
            /\ (/\ o.rate_diff = Rat(5, 10000)
                /\ o.funding_interval = 8
                /\ o.long_price = 10010
                /\ o.short_price = 10000
                /\ o.fees = Rat(14, 100)) =>
                   /\ o.total_cost = Rat(24, 100)
                   /\ o.breakeven_days = Rat(16, 10)

\* the example of the claim
C16_Witness ==
    \E t \in ReturnedScans : \E o \in Returned(t) :
        /\ o.rate_diff = Rat(5, 10000)
        /\ o.funding_interval = 8
        /\ o.long_price = 10010
        /\ o.short_price = 10000
        /\ o.fees = Rat(14, 100)
        /\ o.breakeven_days = Rat(16, 10)

\* the scans of the live engine that have ended, by returning their list or
\* by raising
EndedScans ==
    {t \in Threads : th[t].op = "scan" /\ ~use_mock
                                       /\ th[t].pc \in {"returned", "raised"}}

\* a scan of the live engine whose callback returns has, after k tasks were
\* collected, called it with (1, N), ..., (k, N) in this order, whichever
\* tasks were dropped or raised
ProgressWhileReturning ==
    \A t \in Threads :
        (th[t].op = "scan" /\ ~use_mock /\ th[t].cb = "ok"
                           /\ th[t].pc \in {"collect", "returned"}) =>
            LET N == Len(th[t].symbols)
            IN  /\ th[t].progress = [k \in 1..th[t].completed |-> <<k, N>>]
                /\ th[t].completed = Cardinality(th[t].collected)
                /\ th[t].completed <= N
                /\ th[t].pc = "returned" => Len(th[t].progress) = N

\* a scan over two instruments has returned after two calls of the callback,
\* one task having raised and the other having been dropped
ProgressOfFailedTasks ==
    \E t \in ReturnedScans :
        /\ th[t].progress = <<<<1, 2>>, <<2, 2>>>>
        /\ \E bad \in DOMAIN th[t].tasks : TaskOf(t, bad).raised
        /\ th[t].result = <<>>

\* C17: a scan over N instruments that was given a progress callback has
\* called it exactly N times when it ends, with (1, N), (2, N), ..., (N, N)
\* in this order.
C17_Progress ==
    \A t \in EndedScans :
        th[t].cb # "none" =>
            th[t].progress = [k \in 1..Len(th[t].symbols) |->
                                 <<k, Len(th[t].symbols)>>]

\* the calls that are waiting for a venue: the ticker query, or a task with
\* funding-rate or order-book queries under way
AtGateway ==
    {t \in Threads :
        \/ th[t].pc \in {"u_fetch", "u_lock", "u_write"}
        \/ \E sym \in DOMAIN th[t].tasks :
              TaskOf(t, sym).pc \in {"rates", "book_long", "book_short"}}

\* C18: the mock engine holds no venue and no analyzer, none of its calls
\* ever waits for a venue, and its cache and its history stay as constructed.
C18_MockOffline ==
    use_mock =>
        /\ exchanges = {}
        /\ ~funding_analyzer
        /\ AtGateway = {}
        /\ \A t \in Threads : th[t].tasks = EmptyDict
        /\ cache = EmptyCache
        /\ history = EmptyDict

\* the mock engine has answered a universe selection and then a scan, the
\* clock having passed the cache's time to live
C18_Witness ==
    /\ use_mock
    /\ calls.select >= 1
    /\ now >= TTL
    /\ \E t \in Threads : /\ th[t].op = "scan"
                          /\ th[t].pc = "returned"
                          /\ th[t].result = generate_mock_opportunities

\* the relations between the fields of a record built at lines 314-347 and
\* 404-422 (spread, fees and total_cost are stored as percentages)
FieldRelations(o) ==
    LET daily_yield == RMul(o.rate_diff, o.times_per_day)
    IN  /\ o.times_per_day = Rat(24, o.funding_interval)
        /\ o.apr = RMul(RMul(daily_yield, RInt(365)), RInt(100))
        /\ o.total_cost = RAdd(o.spread, o.fees)
        /\ RLt(RZero, o.total_cost) =>
              o.breakeven_days =
                  IF RLe(daily_yield, Rat(1, 1000000)) THEN RInt(999)
                  ELSE RDiv(RDiv(o.total_cost, RInt(100)), daily_yield)

\* the scans of the mock engine that have returned
MockScans ==
    {t \in Threads : use_mock /\ th[t].op = "scan" /\ th[t].pc = "returned"}

\* C19: every Opportunity a scan of the mock engine returns satisfies the
\* field relations of a record computed live: return = differential x
\* settlements per day x 365 x 100, settlements per day = 24 / interval,
\* total cost = spread cost + fee cost, breakeven days = total cost /
\* (differential x settlements per day) for a total cost above 0.
C19_MockFieldRelations ==
    \A t \in MockScans : \A i \in DOMAIN th[t].result :
        FieldRelations(th[t].result[i])

\* the records of the live engine do satisfy the relations
LiveFieldRelations ==
    \A t \in ReturnedScans : \A o \in Returned(t) : FieldRelations(o)

\* a scan ends only by returning, unless its callback raised
RaisedByCallback ==
    \A t \in Threads :
        th[t].pc \in {"unwind", "raised"} => th[t].cb = "raise"

\* every scan that is called ends, by returning or by raising: no task, venue
\* call or join blocks for ever
ScanEnds ==
    (th[1].op = "scan") ~> (th[1].pc \in {"returned", "raised"})

\* C20: every venue call returning or failing, every scan that is called
\* eventually returns its list, for any combination of venue successes and
\* failures.
C20_ScanReturns ==
    (th[1].op = "scan") ~> (th[1].pc = "returned")

\* thread t has read the cache at lines 88-91, found no fresh entry, and has
\* not yet stored its own list (line 121)
InCacheSection(t) == th[t].pc \in {"u_fetch", "u_lock", "u_write"}

\* a task of thread t has appended to the list of sym (line 356) and has not
\* yet trimmed it (lines 357-358)
InHistorySection(t, sym) ==
    /\ sym \in DOMAIN th[t].tasks
    /\ TaskOf(t, sym).pc \in {"h_len", "h_pop"}

CacheSectionExclusive ==
    \A t1 \in Threads, t2 \in Threads :
        (InCacheSection(t1) /\ InCacheSection(t2)) => t1 = t2

HistorySectionExclusive ==
    \A t1 \in Threads, t2 \in Threads : \A sym \in DOMAIN history :
        (InHistorySection(t1, sym) /\ InHistorySection(t2, sym)) => t1 = t2

\* C21: no two concurrent tasks are at the same time inside the cache's
\* read-check-then-write section, and no two are at the same time inside the
\* append-then-trim section of the same instrument's list.
C21_MutualExclusion == CacheSectionExclusive /\ HistorySectionExclusive

\* thread t, or one of the tasks of its scan, has sent a query to a venue and
\* is waiting for the reply: fetch_tickers (line 100), fetch_funding_rate
\* (line 291) or fetch_order_book (lines 319-320)
AwaitingGateway(t) ==
    \/ th[t].pc = "u_fetch"
    \/ \E sym \in DOMAIN th[t].tasks :
          \/ TaskOf(t, sym).pc = "rates" /\ TaskOf(t, sym).pending # {}
          \/ TaskOf(t, sym).pc \in {"book_long", "book_short"}

\* C22: a thread that is waiting for a venue's reply does not hold the cache
\* lock; the lock is held only by a thread that is storing its list.
C22_NoLockAcrossIO ==
    /\ \A t \in Threads : AwaitingGateway(t) => cache_lock # t
    /\ cache_lock # 0 => th[cache_lock].pc = "u_write"

\* one thread holds the lock while another waits for the ticker reply
C22_Witness ==
    \E t1 \in Threads, t2 \in Threads :
        /\ cache_lock = t1
        /\ th[t2].pc = "u_fetch"

\* the funding-rate queries of the scan of thread t that are under way
RECURSIVE InFlightOver(_, _)
InFlightOver(t, syms) ==
    IF syms = {} THEN 0
    ELSE LET sym == CHOOSE x \in syms : TRUE
         IN  (IF TaskOf(t, sym).pc = "rates"
              THEN Cardinality(TaskOf(t, sym).pending) ELSE 0)
             + InFlightOver(t, syms \ {sym})

InFlight(t) == InFlightOver(t, DOMAIN th[t].tasks)

RatedVenues(t, sym) ==
    {TaskOf(t, sym).rates[i].ex : i \in 1..Len(TaskOf(t, sym).rates)}

\* C24: in every instrument task the venues are selected only after every
\* funding-rate sub-task has completed, from the rates of every venue that
\* answered, and the costs are computed only after both order-book fetches
\* have completed, from the two books fetched.
C24_JoinBeforeProceed ==
    \A t \in Threads : \A sym \in DOMAIN th[t].tasks :
        LET task == TaskOf(t, sym)
        IN  /\ task.pc \notin {"queued", "rates"} => task.pending = {}
            /\ task.sel.ok =>
                  /\ task.pending = {}
                  /\ RatedVenues(t, sym) = Quoting(t, sym)
                  /\ task.sel = select_venues(task.rates)
            /\ task.cost # NoneVal =>
                  /\ task.sel.ok
                  /\ task.long_book.ok
                  /\ task.short_book.ok
                  /\ task.cost = costs(task.sel, task.long_book, task.short_book)

\* three venues were queried, one failed, and the costs were computed on the
\* pair selected from the two that answered
C24_Witness ==
    \E t \in Threads : \E sym \in DOMAIN th[t].tasks :
        /\ exchanges = Venues
        /\ Cardinality(Quoting(t, sym)) = 2
        /\ TaskOf(t, sym).cost # NoneVal

\* the analyzer raised in one of its calls for the task
AnalyzerRaised(task) == \E i \in DOMAIN task.analyzer : task.analyzer[i] = "raise"

\* the record of a task but for its enrichment block
BaseFields(t, sym) ==
    opportunity(sym, TaskOf(t, sym).sel, TaskOf(t, sym).cost,
                TaskOf(t, sym).sigma_sq, {})

\* whatever the analyzer does, the base fields of the record are those of a
\* task without enrichment
BaseFieldsKept ==
    \A t \in ReturnedScans : \A o \in Returned(t) :
        [o EXCEPT !.funding_analysis = {}] = BaseFields(t, o.symbol)

\* the analyzer raised in its first call and the record carries no block
RaisedAtFirstCall ==
    \E t \in ReturnedScans : \E o \in Returned(t) :
        /\ TaskOf(t, o.symbol).analyzer[1] = "raise"
        /\ o.funding_analysis = {}

\* C25: when the analyzer raises at any point while an instrument is
\* enriched, the Opportunity is returned with the base fields of a task
\* without enrichment and with no enrichment block.
C25_EnrichmentOmitted ==
    \A t \in ReturnedScans : \A o \in Returned(t) :
        AnalyzerRaised(TaskOf(t, o.symbol)) => o = BaseFields(t, o.symbol)

\* the list of sym, empty when the engine has none for it
HistoryOf(sym) == IF sym \in DOMAIN history THEN history[sym] ELSE <<>>

\* a task that has ended has appended once when it produced an Opportunity
\* and never when its instrument was dropped
AppendedIffProduced ==
    \A t \in Threads : \A sym \in DOMAIN th[t].tasks :
        TaskOf(t, sym).pc = "done" =>
            TaskOf(t, sym).appends = IF TaskOf(t, sym).result # <<>> THEN 1 ELSE 0

\* a step changes the list of sym only as a step of a task of sym that is at
\* lines 355-358, and a differential is recorded only by the append of such
\* a task, which puts its own differential at the end of the list
ListChangedByRecordingTask(sym) ==
    /\ (HistoryOf(sym)' # HistoryOf(sym)
           \/ (sym \in DOMAIN history') # (sym \in DOMAIN history)) =>
          \E t \in Threads :
              /\ sym \in DOMAIN th[t].tasks
              /\ TaskOf(t, sym).pc \in {"h_init", "h_append", "h_pop"}
              /\ th'[t].tasks[sym].pc # TaskOf(t, sym).pc
    /\ RecordedOf(sym)' # RecordedOf(sym) =>
          \E t \in Threads :
              /\ sym \in DOMAIN th[t].tasks
              /\ TaskOf(t, sym).pc = "h_append"
              /\ th'[t].tasks[sym].appends = TaskOf(t, sym).appends + 1
              /\ RecordedOf(sym)' = Append(RecordedOf(sym), TaskOf(t, sym).sel.rate_diff)
              /\ HistoryOf(sym)' = Append(HistoryOf(sym), TaskOf(t, sym).sel.rate_diff)

ProducedRecords(t) == {TaskOf(t, sym).result[1] : sym \in Produced(t)}

\* with no callback or one that returns, a scan returns what its tasks
\* produced, sorted
ReturningCallbackNoEffect ==
    \A t \in ReturnedScans :
        /\ Returned(t) = ProducedRecords(t)
        /\ Len(th[t].result) = Cardinality(ProducedRecords(t))
        /\ th[t].result = sorted_by_apr(th[t].opportunities)

\* C27: a scan ends by returning the Opportunities its tasks produced, as it
\* does without a callback, whatever callback it was given and whatever the
\* callback does when it is called.
C27_CallbackNoEffect ==
    \A t \in EndedScans :
        /\ th[t].pc = "returned"
        /\ Returned(t) = ProducedRecords(t)

\* the tasks that have computed their volatility (line 360)
WithSigma(t) ==
    {sym \in DOMAIN th[t].tasks :
        TaskOf(t, sym).pc = "enrich" \/ TaskOf(t, sym).result # <<>>}

\* with at most MinSamples differentials in the list the volatility is the
\* placeholder, which is not zero
PlaceholderNonZero ==
    \A t \in Threads : \A sym \in WithSigma(t) :
        Len(HistoryOf(sym)) <= MinSamples =>
            /\ TaskOf(t, sym).sigma_sq = PlaceholderVar
            /\ PlaceholderVar # RZero

\* C28: the volatility computed for an instrument is never zero, for any
\* content and length of its list.
C28_VolatilityNonZero ==
    \A t \in Threads : \A sym \in WithSigma(t) : TaskOf(t, sym).sigma_sq # RZero

\* no scan is under way
AllFinished == \A t \in Threads : th[t].pc \in {"idle", "returned", "raised"}

\* the list of sym ends with the n differentials recorded last
HoldsLast(sym, n) ==
    /\ Len(HistoryOf(sym)) >= n
    /\ LastOf(HistoryOf(sym), n) = LastOf(RecordedOf(sym), n)

\* the differentials the scans called so far have recorded for sym: in the
\* scenario "warm" every scan records one
RecordedByScans == Min(calls.scan, HistoryCap)

\* when the instrument had a list before the scans started, the list holds
\* afterwards what the scans recorded
ExistingListKeepsBoth ==
    \A sym \in DOMAIN history :
        (AllFinished /\ Len(RecordedOf(sym)) >= HistoryCap - 1) =>
            HoldsLast(sym, RecordedByScans)

\* C29: when the scans that ran at the same time have finished, the list of
\* an instrument holds the differentials they recorded for it (capacity 50
\* permitting), also when it had no list before the scans started.
C29_NoLostDifferential ==
    \A sym \in DOMAIN history :
        AllFinished => HoldsLast(sym, RecordedByScans)

\* the records the tasks of thread t produced, in the order in which the
\* instruments were submitted (the order of the universe)
RECURSIVE InUniverseOrder(_, _)
InUniverseOrder(t, symbols) ==
    IF symbols = <<>> THEN <<>>
    ELSE TaskOf(t, Head(symbols)).result \o InUniverseOrder(t, Tail(symbols))

\* a scan of an engine with binance and okx has returned two Opportunities
\* of equal annualized return; the venues' replies in such a scan are the
\* same in every run (each venue quoted its rate and every book answered)
TiedScan(t) ==
    /\ t \in ReturnedScans
    /\ exchanges = {"binance", "okx"}
    /\ Len(th[t].result) = 2
    /\ th[t].result[1].apr = th[t].result[2].apr

TieReturnsBtcFirst ==
    \A t \in Threads : TiedScan(t) => th[t].result[1].symbol = "BTC/USDT"

TieReturnsEthFirst ==
    \A t \in Threads : TiedScan(t) => th[t].result[1].symbol = "ETH/USDT"

\* a list of Opportunities of different annualized returns is returned in
\* the same order whatever the order of completion
DistinctReturnsIndependent ==
    \A t \in ReturnedScans :
        (\A i \in DOMAIN th[t].result, j \in DOMAIN th[t].result :
            i # j => th[t].result[i].apr # th[t].result[j].apr) =>
                th[t].result = sorted_by_apr(InUniverseOrder(t, th[t].symbols))

\* C30: for a fixed universe and fixed replies a scan returns the same list
\* in every order in which its tasks complete, equal annualized returns
\* included: the list it returns when the tasks complete in the order of
\* their submission.
C30_ScheduleIndependent ==
    \A t \in ReturnedScans :
        th[t].result = sorted_by_apr(InUniverseOrder(t, th[t].symbols))

\* in every Opportunity a scan returns the differential is >= 0 and the
\* settlement interval is not 0, and the annualized return is >= 0 whenever
\* the interval is positive
DifferentialNonNegative ==
    \A t \in ReturnedScans : \A o \in Returned(t) :
        /\ RLe(RZero, o.rate_diff)
        /\ o.funding_interval # 0
        /\ o.funding_interval > 0 => RLe(RZero, o.apr)

\* a scan has returned an Opportunity whose settlement interval was inferred
\* from a next-funding timestamp that lies behind the reply's own timestamp
NegativeIntervalEmitted ==
    \E t \in ReturnedScans : \E o \in Returned(t) :
        /\ o.funding_interval < 0
        /\ RLt(o.apr, RZero)

\* C31: every Opportunity a scan returns has a settlement interval > 0, a
\* rate differential >= 0 and an annualized return >= 0, whatever the
\* funding-rate replies of the venues were, replies whose interval is
\* inferred from the next-funding and current timestamps included.
C31_PositiveInterval ==
    \A t \in ReturnedScans : \A o \in Returned(t) :
        /\ o.funding_interval > 0
        /\ RLe(RZero, o.rate_diff)
        /\ RLe(RZero, o.apr)

\* the report of a list leads to the balance check exactly when the list is
\* empty: every record a scan returns, live or mock, lacks keys the report
\* reads
BalanceIffEmptyList ==
    [][\A t \in Threads :
          (th[t].pc = "returned" /\ th'[t].pc # "returned") =>
              (th'[t].pc = "balance") = (th[t].result = <<>>)]_vars

\* every iteration of the loop ends and leaves the loop at its top, ready
\* for the next iteration: no error of an iteration ends the loop
IterationsEnd ==
    \A k \in 1..MaxIterations :
        (calls.scan = k) ~> (calls.scan = k /\ th[1].pc = "idle")

\* at the end of every iteration the balance check has been executed once
\* per scan made so far
BalancedAtEnd ==
    \A t \in Threads : th[t].pc = "end_iter" => calls.balance = calls.scan

\* an iteration whose scan returned Opportunities has ended without the
\* balance check
BalanceSkipped ==
    \E t \in Threads :
        /\ th[t].pc = "end_iter"
        /\ th[t].result # <<>>
        /\ calls.balance < calls.scan

\* C32: in every iteration of run_market_scan the balance check
\* guard.balance_security_transfer() is executed after the scan, whether the
\* scan returned an empty or a non-empty list, and every iteration ends with
\* the loop going on: no error of an iteration terminates the loop.
C32_BalanceEveryIteration ==
    /\ []BalancedAtEnd
    /\ IterationsEnd

====
